---- MODULE Spec2Model ----
(***************************************************************************)
(* A model of the WebREPL client (src/webrepl.js): the request encoders,   *)
(* the response decoder and the file-transfer state machine that           *)
(* _handleMessage drives from the messages the websocket delivers.         *)
(*                                                                         *)
(* Bytes are numbers 0..255, a Uint8Array is a sequence of bytes (index i  *)
(* of the source is index i+1 here), a string is the sequence of its       *)
(* character codes.  Each action is one call of a method of the class; it  *)
(* records, besides the fields it assigns, what the call did to the        *)
(* outside: the messages it passed to ws.send (out), the lines it logged   *)
(* (log) and the blobs it handed to saveAs (saved).                        *)
(***************************************************************************)
EXTENDS Integers, Sequences, FiniteSets, TLC

VARIABLES
    binaryState,    \* this.binaryState
    sendFileName,   \* this.sendFileName
    sendFileData,   \* this.sendFileData
    getFileName,    \* this.getFileName
    getFileData,    \* this.getFileData
    out,            \* the messages the last call passed to this.ws.send, in order
    log,            \* the console.log lines of the last call (their kind)
    saved,          \* the calls of this.saveAs made by the last call
    ws,             \* this.ws: "none" (undefined), "connecting" or "open"
    probe,          \* the last direct call of an encoder or of the decoder
    pre,            \* history: binaryState when the last call started
    ev,             \* history: the last call and what its message looked like
    accepted,       \* history: payloads of the data chunks taken since loadFile
    reports,        \* history: completion reports since sendFile / loadFile
    saves           \* history: saveAs calls since loadFile

vars == <<binaryState, sendFileName, sendFileData, getFileName, getFileData,
          out, log, saved, ws, probe, pre, ev, accepted, reports, saves>>

session == <<binaryState, sendFileName, sendFileData, getFileName, getFileData>>

----------------------------------------------------------------------------
(* Bounds of the model. *)

\* longest binary message the transport delivers
MaxMsgLen == 4
\* most bytes a GET accumulates
MaxGetLen == 2
\* buffers passed to sendFile span up to MaxChunks full chunks (plus one byte)
MaxChunks == 1
\* longest file name handed to the encoders
MaxNameLen == 65

(* Constants of the program. *)

ChunkSize == 1024
\* new Uint8Array(2 + 1 + 1 + 8 + 4 + 2 + 64)
FrameLen == 2 + 1 + 1 + 8 + 4 + 2 + 64
\* for (let i = 0; i < 64; ++i)
NameField == 64
CharW == 87
CharA == 65
CharB == 66
CharCR == 13
OpPut == 1
OpGet == 2

\* The byte values a delivered message may hold at offset i: enough to make
\* the signature right or wrong in either byte, the status zero or nonzero in
\* either byte, and a chunk's declared length 0, 1 or 2.
ByteChoices(i) ==
    CASE i = 0 -> {0, 1, 2, CharW}
      [] i = 1 -> {0, CharB}
      [] OTHER -> {0, 1}

\* the messages of exactly k bytes
RECURSIVE MsgsOfLen(_)
MsgsOfLen(k) ==
    IF k = 0 THEN {<<>>}
    ELSE {Append(d, b) : d \in MsgsOfLen(k - 1), b \in ByteChoices(k - 1)}

\* the binary messages (event.data an ArrayBuffer) the transport may deliver
BinMsgs == UNION {MsgsOfLen(k) : k \in 0..MaxMsgLen}

\* the text messages the transport may deliver
TextMsgs == {"Password: ", "Password:", ">>> "}

\* the file names callers pass, as character codes: "ab"
Names == {<<97, 98>>}

\* a buffer of n bytes whose content depends on the position
Buf(n) == [i \in 1..n |-> (i - 1) % 251]

BufLens == {0, 1} \cup {k * ChunkSize + d : k \in 1..MaxChunks, d \in {0, 1}}

\* the Uint8Array buffers callers pass to sendFile
Bufs == {Buf(n) : n \in BufLens}

Min(a, b) == IF a < b THEN a ELSE b

\* an ASCII file name of n characters whose content depends on the position
Name(n) == [i \in 1..n |-> 33 + ((i - 1) % 94)]

NameLens == {0, 1, NameField - 1} \cup (NameField..MaxNameLen)

\* the file names handed to the encoders: empty, short, and around 64 long
CodecNames == {Name(n) : n \in NameLens}

\* the file sizes handed to _getPutBinary, below, at and above 2^31 and 2^32
CodecSizes ==
    {[hi |-> h, lo |-> l] : h \in {0, 1, 32768, 65535, 65536, 65537},
                            l \in {0, 513, 65535}}

----------------------------------------------------------------------------
(* Outbound messages. *)

BinOut(bytes) == [binary |-> TRUE, data |-> bytes]
TextOut(chars) == [binary |-> FALSE, data |-> chars]

\* opts.password || 'micropythoN'
password == <<109, 105, 99, 114, 111, 112, 121, 116, 104, 111, 78>>

\* A number n >= 0 of the program is held as hi * 2^16 + lo, lo < 2^16, so
\* that values of 2^31 and more can be written.
Num(n) == [hi |-> n \div 65536, lo |-> n % 65536]

\* (x >> (8 * k)) & 0xff for k in 0..3: the operands of >> and & are taken
\* modulo 2^32, which leaves byte k of x
ByteAt(x, k) ==
    IF k < 2 THEN (x.lo \div (256 ^ k)) % 256
             ELSE (x.hi \div (256 ^ (k - 2))) % 256

\* the loop body of the encoders: rec[18 + i], with i < filename.length - 1
NameByte_OffByOne(filename, i) ==
    IF i + 1 < Len(filename) THEN filename[i + 1] % 256 ELSE 0

\* the loop body of the encoders: rec[18 + i]
NameByte(filename, i) ==
    IF i < Len(filename) THEN filename[i + 1] % 256 ELSE 0

\* the fixed-size request record shared by _getPutBinary and _getGetBinary
Record(op, filesize, filename) ==
    [i \in 1..FrameLen |->
        CASE i = 1 -> CharW
          [] i = 2 -> CharA
          [] i = 3 -> op
          [] i \in 4..12 -> 0
          [] i \in 13..16 -> ByteAt(filesize, i - 13)
          [] i \in 17..18 -> ByteAt(Num(Len(filename)), i - 17)
          [] OTHER -> NameByte(filename, i - 19)]

_getPutBinary(filename, filesize) == Record(OpPut, filesize, filename)

_getGetBinary(filename) == Record(OpGet, Num(0), filename)

\* data[i] inside a bitwise expression: a missing element (undefined) is 0
ByteOrZero(data, i) == IF i < Len(data) THEN data[i + 1] ELSE 0

_decodeResp(data) ==
    IF Len(data) >= 2 /\ data[1] = CharW /\ data[2] = CharB
      THEN ByteOrZero(data, 2) + 256 * ByteOrZero(data, 3)
      ELSE -1

\* buf.slice(begin, end) for 0 <= begin <= end
Slice(buf, begin, end) == SubSeq(buf, begin + 1, Min(end, Len(buf)))

\* the messages sent by the loop of case 11, from offset on
RECURSIVE SendChunks(_, _)
SendChunks(buf, offset) ==
    IF offset < Len(buf)
      THEN <<BinOut(Slice(buf, offset, offset + ChunkSize))>>
             \o SendChunks(buf, offset + ChunkSize)
      ELSE <<>>

\* var rec = new Uint8Array(1); rec[0] = 0
AckByte == BinOut(<<0>>)

\* var sz = data[0] | (data[1] << 8)
ChunkSz(data) == ByteOrZero(data, 0) + 256 * ByteOrZero(data, 1)

\* new_buf: the old bytes, then data.slice(2)
Accumulate(buf, data) == buf \o Slice(data, 2, Len(data))

\* loadFile keeps the buffer of the transfer before
StaleBuffer == getFileData

\* this.getFileData = new Uint8Array(0)
FreshBuffer == <<>>

----------------------------------------------------------------------------
(* _handleMessage: the switch on binaryState, one definition per case.     *)
(* Each gives what the case leaves behind: the state, getFileData, the     *)
(* messages sent, the lines logged, the saveAs calls.                      *)

Quiet == [state |-> binaryState, data |-> getFileData,
          out |-> <<>>, log |-> <<>>, saved |-> <<>>]

Case11(data) ==
    IF _decodeResp(data) = 0
      THEN [Quiet EXCEPT !.out = SendChunks(sendFileData, 0), !.state = 12]
      ELSE Quiet

\* a failed final response is waited out, as cases 11 and 21 do
Case12_Waits(data) ==
    IF _decodeResp(data) = 0
      THEN [Quiet EXCEPT !.log = <<"Sent">>, !.state = 0]
      ELSE Quiet

Case12(data) ==
    IF _decodeResp(data) = 0
      THEN [Quiet EXCEPT !.log = <<"Sent">>, !.state = 0]
      ELSE [Quiet EXCEPT !.log = <<"FailedSending">>, !.state = 0]

Case21(data) ==
    IF _decodeResp(data) = 0
      THEN [Quiet EXCEPT !.state = 22, !.out = <<AckByte>>]
      ELSE Quiet

\* the end-of-file chunk is acknowledged like a data chunk
OnEndOfFile_Acked == [Quiet EXCEPT !.state = 23, !.out = <<AckByte>>]

\* case 22, sz == 0: end of file
OnEndOfFile == [Quiet EXCEPT !.state = 23]

\* a chunk of the wrong length is dropped without leaving state 22
OnMismatch_Kept == Quiet

\* case 22, data.length != 2 + sz
OnMismatch == [Quiet EXCEPT !.state = 0]

Case22(data) ==
    IF Len(data) = 2 + ChunkSz(data)
      THEN IF ChunkSz(data) = 0
             THEN OnEndOfFile
             ELSE [Quiet EXCEPT !.data = Accumulate(getFileData, data),
                                !.log = <<"GettingBytes">>,
                                !.out = <<AckByte>>]
      ELSE OnMismatch

\* the blob is handed to saveAs before the response is looked at
Case23_SavesAnyway(data) ==
    [Quiet EXCEPT !.log = IF _decodeResp(data) = 0
                            THEN <<"Got">> ELSE <<"FailedGetting">>,
                  !.saved = <<[blob |-> getFileData, name |-> getFileName]>>,
                  !.state = 0]

Case23(data) ==
    IF _decodeResp(data) = 0
      THEN [Quiet EXCEPT !.log = <<"Got">>,
                         !.saved = <<[blob |-> getFileData, name |-> getFileName]>>,
                         !.state = 0]
      ELSE [Quiet EXCEPT !.log = <<"FailedGetting">>, !.state = 0]

Case31(data) == [Quiet EXCEPT !.log = <<"GET_VER">>, !.state = 0]

Switch(data) ==
    CASE binaryState = 11 -> Case11(data)
      [] binaryState = 12 -> Case12(data)
      [] binaryState = 21 -> Case21(data)
      [] binaryState = 22 -> Case22(data)
      [] binaryState = 23 -> Case23(data)
      [] binaryState = 31 -> Case31(data)
      [] OTHER -> Quiet

\* event.data = 'Password: ', an assignment: true of every event
IsPasswordPrompt_Assigned(event) == TRUE

\* the prompt is matched without its trailing space
IsPasswordPrompt_Trimmed(event) ==
    ~event.binary /\ event.data \in {"Password: ", "Password:"}

\* event.data == 'Password: '
IsPasswordPrompt(event) == ~event.binary /\ event.data = "Password: "

----------------------------------------------------------------------------
(* What a delivered binary message looks like, read off its bytes alone.   *)

HasSignature(d) == Len(d) >= 2 /\ d[1] = CharW /\ d[2] = CharB

StatusOf(d) ==
    IF Len(d) < 4 THEN "short"
    ELSE IF d[3] = 0 /\ d[4] = 0 THEN "zero" ELSE "nonzero"

DeclaredLen(d) == d[1] + 256 * d[2]

FrameOf(d) ==
    IF Len(d) < 2 THEN "short"
    ELSE IF Len(d) # 2 + DeclaredLen(d) THEN "mismatch"
    ELSE IF DeclaredLen(d) = 0 THEN "eof" ELSE "data"

Payload(d) == SubSeq(d, 3, Len(d))

Call(op) == [op |-> op, sig |-> FALSE, status |-> "none", frame |-> "none",
             prompt |-> FALSE, threw |-> FALSE]

Look(event) ==
    IF event.binary
      THEN [op |-> "binary", sig |-> HasSignature(event.data),
            status |-> StatusOf(event.data), frame |-> FrameOf(event.data),
            prompt |-> FALSE, threw |-> FALSE]
      ELSE [Call("text") EXCEPT !.prompt = (event.data = "Password: ")]

IsReport(line) == line \in {"Sent", "FailedSending", "Got", "FailedGetting"}

Reports(lines) == Cardinality({i \in DOMAIN lines : IsReport(lines[i])})

----------------------------------------------------------------------------
(* The operations of the class. *)

NoProbe == [fn |-> "none", name |-> <<>>, size |-> Num(0), data |-> <<>>,
            frame |-> <<>>, code |-> 0]

\* the opts a caller may pass to the constructor
Opts == [binaryState : {0, 31}, autoconnect : BOOLEAN]

\* the constructor takes binaryState from opts, as its comment documents
constructor_FromOpts(opts) ==
    /\ binaryState = opts.binaryState
    /\ sendFileName = <<>>
    /\ sendFileData = <<>>
    /\ getFileName = <<>>
    /\ getFileData = <<>>
    /\ ws = IF opts.autoconnect THEN "connecting" ELSE "none"
    /\ out = <<>>
    /\ log = <<>>
    /\ saved = <<>>
    /\ probe = NoProbe
    /\ pre = opts.binaryState
    /\ ev = Call("new")
    /\ accepted = <<>>
    /\ reports = 0
    /\ saves = 0

\* new WebREPL(opts)
constructor(opts) ==
    /\ binaryState = 0
    /\ sendFileName = <<>>
    /\ sendFileData = <<>>
    /\ getFileName = <<>>
    /\ getFileData = <<>>
    /\ ws = IF opts.autoconnect THEN "connecting" ELSE "none"
    /\ out = <<>>
    /\ log = <<>>
    /\ saved = <<>>
    /\ probe = NoProbe
    /\ pre = 0
    /\ ev = Call("new")
    /\ accepted = <<>>
    /\ reports = 0
    /\ saves = 0

Init == \E opts \in Opts : constructor(opts)

\* this.ws.send(...) raises unless the socket is open: this.ws is undefined
\* before connect(), and a connecting socket refuses to send
SendThrows == ws # "open"

\* connect(), up to the socket's creation; the model follows one connection
connect ==
    /\ ws = "none"
    /\ ws' = "connecting"
    /\ out' = <<>>
    /\ log' = <<>>
    /\ saved' = <<>>
    /\ pre' = binaryState
    /\ ev' = Call("connect")
    /\ UNCHANGED <<session, probe, accepted, reports, saves>>

\* this.ws.onopen: from here on messages reach _handleMessage
onopen ==
    /\ ws = "connecting"
    /\ ws' = "open"
    /\ out' = <<>>
    /\ log' = <<>>
    /\ saved' = <<>>
    /\ pre' = binaryState
    /\ ev' = Call("open")
    /\ UNCHANGED <<session, probe, accepted, reports, saves>>

sendFile(filename, buffer) ==
    /\ sendFileName' = filename
    /\ sendFileData' = buffer
    /\ binaryState' = 11
    /\ log' = <<"Sending">>
    /\ out' = IF SendThrows
                THEN <<>>
                ELSE <<BinOut(_getPutBinary(filename, Num(Len(buffer))))>>
    /\ saved' = <<>>
    /\ UNCHANGED <<getFileName, getFileData, ws, probe, accepted, saves>>
    /\ pre' = binaryState
    /\ ev' = [Call("sendFile") EXCEPT !.threw = SendThrows]
    /\ reports' = 0

loadFile(filename) ==
    /\ getFileName' = filename
    /\ getFileData' = FreshBuffer
    /\ binaryState' = 21
    /\ log' = <<"Getting">>
    /\ out' = IF SendThrows THEN <<>> ELSE <<BinOut(_getGetBinary(filename))>>
    /\ saved' = <<>>
    /\ UNCHANGED <<sendFileName, sendFileData, ws, probe>>
    /\ pre' = binaryState
    /\ ev' = [Call("loadFile") EXCEPT !.threw = SendThrows]
    /\ accepted' = <<>>
    /\ reports' = 0
    /\ saves' = 0

\* called by the open socket only (ws.onmessage is set in onopen)
_handleMessage(event) ==
    LET r == IF event.binary THEN Switch(event.data) ELSE Quiet
        reply == IF IsPasswordPrompt(event)
                   THEN <<TextOut(password \o <<CharCR>>)>>
                   ELSE <<>>
    IN  /\ ws = "open"
        /\ binaryState' = r.state
        /\ getFileData' = r.data
        /\ out' = r.out \o reply
        /\ log' = r.log
        /\ saved' = r.saved
        /\ UNCHANGED <<sendFileName, sendFileData, getFileName, ws, probe>>
        /\ pre' = binaryState
        /\ ev' = Look(event)
        /\ accepted' = IF event.binary /\ binaryState = 22
                          /\ FrameOf(event.data) = "data"
                         THEN accepted \o Payload(event.data)
                         ELSE accepted
        /\ reports' = reports + Reports(r.log)
        /\ saves' = saves + Len(r.saved)

\* a data chunk is delivered only while the accumulated file stays in bounds
InBounds(d) ==
    (binaryState = 22 /\ FrameOf(d) = "data")
        => Len(getFileData) + Len(Payload(d)) <= MaxGetLen

CallSendFile == \E f \in Names, b \in Bufs : sendFile(f, b)

CallLoadFile == \E f \in Names : loadFile(f)

DeliverBinary ==
    \E d \in BinMsgs : InBounds(d) /\ _handleMessage([binary |-> TRUE, data |-> d])

DeliverText ==
    \E t \in TextMsgs : _handleMessage([binary |-> FALSE, data |-> t])

Next ==
    \/ connect
    \/ onopen
    \/ CallSendFile
    \/ CallLoadFile
    \/ DeliverBinary
    \/ DeliverText

Spec == Init /\ [][Next]_vars

(* The encoders and the decoder called on their own. *)

EncodePut(filename, filesize) ==
    /\ probe' = [NoProbe EXCEPT !.fn = "put", !.name = filename,
                                !.size = filesize,
                                !.frame = _getPutBinary(filename, filesize)]
    /\ UNCHANGED <<session, out, log, saved, ws, pre, ev, accepted, reports, saves>>

EncodeGet(filename) ==
    /\ probe' = [NoProbe EXCEPT !.fn = "get", !.name = filename,
                                !.frame = _getGetBinary(filename)]
    /\ UNCHANGED <<session, out, log, saved, ws, pre, ev, accepted, reports, saves>>

Decode(data) ==
    /\ probe' = [NoProbe EXCEPT !.fn = "decode", !.data = data,
                                !.code = _decodeResp(data)]
    /\ UNCHANGED <<session, out, log, saved, ws, pre, ev, accepted, reports, saves>>

CallEncodePut == \E f \in CodecNames, n \in CodecSizes : EncodePut(f, n)

CallEncodeGet == \E f \in CodecNames : EncodeGet(f)

CallDecode == \E d \in BinMsgs : Decode(d)

CodecNext == CallEncodePut \/ CallEncodeGet \/ CallDecode

CodecSpec == Init /\ [][CodecNext]_vars

(* The same program with a caller that starts a transfer only when the    *)
(* socket is open and the session idle, and a transport that keeps         *)
(* delivering binary messages.                                             *)

StartWhenIdle ==
    binaryState = 0 /\ ws = "open" /\ (CallSendFile \/ CallLoadFile)

LiveNext == connect \/ onopen \/ StartWhenIdle \/ DeliverBinary \/ DeliverText

LiveSpec == Init /\ [][LiveNext]_vars /\ WF_vars(DeliverBinary)

----------------------------------------------------------------------------
(* Properties. *)

Ack == [binary |-> TRUE, data |-> <<0>>]

IsCall == ev.op \in {"sendFile", "loadFile"}

IsBinary == ev.op = "binary"

\* the bytes of a sequence of outbound messages, in send order
RECURSIVE Bytes(_)
Bytes(msgs) == IF msgs = <<>> THEN <<>> ELSE Head(msgs).data \o Bytes(Tail(msgs))

CeilDiv(n, d) == (n + d - 1) \div d

\* C1: sendFile or loadFile called while binaryState is not 0 is rejected: the
\* five session fields keep their values and no request frame is sent.
C1_BusyStartRejected ==
    [][(ws = "open" /\ binaryState # 0 /\ IsCall')
          => (UNCHANGED session /\ out' = <<>>)]_vars

\* The chunking half of C2: a status-0 response in state 11 sends
\* ceil(N / 1024) binary messages of at most 1024 bytes whose concatenation is
\* sendFileData, and leaves the state 12.
PutChunking ==
    (IsBinary /\ pre = 11 /\ ev.sig /\ ev.status = "zero")
        => /\ binaryState = 12
           /\ Len(out) = CeilDiv(Len(sendFileData), ChunkSize)
           /\ \A i \in DOMAIN out : out[i].binary /\ Len(out[i].data) <= ChunkSize
           /\ Bytes(out) = sendFileData

\* C2: a status-0 response in state 11 sends the buffer of sendFile as
\* ceil(N / 1024) messages of at most 1024 bytes, in order; the state is then
\* 12 and stays 12 until the next binary message arrives.
C2_PutChunksThenAwaitsFinal ==
    /\ []PutChunking
    /\ [][(binaryState = 12 /\ binaryState' # 12) => IsBinary']_vars

\* C3: the buffer handed to saveAs is the concatenation, in arrival order, of
\* the payloads of the well-formed non-empty chunks accepted in state 22 since
\* the most recent loadFile, and of nothing else.
C3_SavedIsAccepted ==
    saved # <<>> => (Len(saved) = 1 /\ saved[1].blob = accepted)

C3_Witness ==
    /\ saved # <<>>
    /\ saved[1].blob = <<1, 0>>
    /\ IsBinary /\ pre = 23

\* C4: in a GET, the status-0 initial response and each accepted chunk of
\* declared length > 0 are answered by exactly one acknowledgment byte 0; the
\* zero-length chunk is answered by nothing and only moves the state from 22
\* to 23; no binary message is answered by more than one message.
C4_GetAcks ==
    [][IsBinary' =>
        /\ (binaryState = 21 /\ ev'.sig /\ ev'.status = "zero")
              => out' = <<Ack>>
        /\ (binaryState = 22 /\ ev'.frame = "data")
              => out' = <<Ack>>
        /\ (binaryState = 22 /\ ev'.frame = "eof")
              => /\ out' = <<>>
                 /\ binaryState' = 23
                 /\ saved' = <<>>
                 /\ UNCHANGED <<sendFileName, sendFileData, getFileName, getFileData>>
        /\ (binaryState \in {21, 22, 23}) => Len(out') <= 1]_vars

C4_Witness ==
    /\ IsBinary /\ pre = 22 /\ ev.frame = "eof"
    /\ binaryState = 23 /\ out = <<>>
    /\ Len(getFileData) = 2

\* C5: a binary message without the signature 'WB' in its first two bytes,
\* arriving in a non-idle state, forces binaryState to 0.
C5_BadSignatureResets ==
    (IsBinary /\ pre # 0 /\ ~ev.sig) => binaryState = 0

\* C6: a signed response with nonzero status in state 11 or 21 aborts the
\* transfer: binaryState becomes 0 and nothing is sent.
C6_RejectionAborts ==
    (IsBinary /\ pre \in {11, 21} /\ ev.sig /\ ev.status = "nonzero")
        => (binaryState = 0 /\ out = <<>>)

\* C7: in state 22 a message whose length is not 2 + its declared length
\* resets binaryState to 0, adds nothing to getFileData and sends nothing.
C7_MismatchResets ==
    [][(IsBinary' /\ binaryState = 22 /\ ev'.frame \in {"mismatch", "short"})
          => /\ binaryState' = 0
             /\ getFileData' = getFileData
             /\ out' = <<>>]_vars

C7_Witness ==
    /\ IsBinary /\ pre = 22 /\ ev.frame = "mismatch"
    /\ binaryState = 0 /\ out = <<>>
    /\ getFileData # <<>>

\* C8: a binary message arriving in state 0 changes none of the session
\* fields and sends nothing.
C8_IdleIgnoresBinary ==
    [][(IsBinary' /\ binaryState = 0) => (UNCHANGED session /\ out' = <<>>)]_vars

C8_Witness ==
    /\ IsBinary /\ pre = 0 /\ binaryState = 0
    /\ ev.sig /\ ev.status = "zero"
    /\ sendFileData # <<>> /\ getFileData # <<>>

\* C9: a transfer that left state 0 and is back in state 0 has produced
\* exactly one completion report.
C9_OneReportPerTransfer ==
    (pre # 0 /\ binaryState = 0) => reports = 1

\* C10: while binary messages keep being delivered, a session that is not
\* idle eventually is idle again.
C10_EventuallyIdle == [](binaryState # 0 => <>(binaryState = 0))

\* C11: saveAs is called only by the step that handles a 'WB' response of
\* status 0 in state 23: in no other state, not on a nonzero status or a wrong
\* signature, and at most once per loadFile.
C11_SaveOnlyOnFinalOk ==
    /\ saved # <<>> => /\ IsBinary /\ pre = 23
                       /\ ev.sig /\ ev.status # "nonzero"
                       /\ Len(saved) = 1
    /\ saves <= 1

C11_Witness ==
    /\ saved # <<>> /\ saves = 1
    /\ IsBinary /\ pre = 23 /\ ev.sig /\ ev.status = "zero"

\* C12: decoding a buffer of fewer than 4 bytes reports an invalid frame,
\* never status 0, also when the buffer starts with 'WB'.
C12_ShortIsInvalid ==
    (probe.fn = "decode" /\ Len(probe.data) < 4) => probe.code = -1

\* the name bytes an 82-byte frame holds at offsets 18..81
NameBytes(frame) == SubSeq(frame, 19, FrameLen)

Zeros(n) == [i \in 1..n |-> 0]

\* C13: both encoders give an 82-byte frame whose offsets 18..81 hold the
\* first min(len, 64) character codes of the name, then zeros: a name of 64
\* is written whole, a longer one is cut to its first 64 characters.
C13_NameField ==
    probe.fn \in {"put", "get"} =>
        LET m == Min(Len(probe.name), 64)
        IN  /\ Len(probe.frame) = 82
            /\ NameBytes(probe.frame) = SubSeq(probe.name, 1, m) \o Zeros(64 - m)

C13_Witness ==
    /\ probe.fn = "get" /\ Len(probe.name) = 65
    /\ probe.frame[82] = probe.name[64]

\* the number a frame holds at offsets from..from+n-1, little-endian, in
\* 16-bit halves
HalfAt(frame, from) == frame[from + 1] + 256 * frame[from + 2]

\* C14: encoding a PUT of 2^32 bytes or more fails with a size overflow and
\* gives no frame; below 2^32 offsets 12..15 hold the size, little-endian.
C14_SizeField ==
    probe.fn = "put" =>
        IF probe.size.hi >= 65536
          THEN probe.frame = <<>>
          ELSE /\ HalfAt(probe.frame, 12) = probe.size.lo
               /\ HalfAt(probe.frame, 14) = probe.size.hi

\* C15: in an idle state reached by the end of a transfer neither
\* sendFileData nor getFileData holds bytes of that transfer.
C15_BufferReleased ==
    (pre # 0 /\ binaryState = 0) => (sendFileData = <<>> /\ getFileData = <<>>)

\* C16: any binary message handled in state 12 or 23 sets binaryState to 0
\* and sends nothing, whatever it holds.
C16_FinalAlwaysResets ==
    (IsBinary /\ pre \in {12, 23}) => (binaryState = 0 /\ out = <<>>)

C16_Witness ==
    /\ IsBinary /\ pre = 12 /\ ~ev.sig /\ ev.status = "short"
    /\ binaryState = 0

PasswordLine ==
    [binary |-> FALSE,
     data |-> <<109, 105, 99, 114, 111, 112, 121, 116, 104, 111, 78, 13>>]

\* C17: a text message changes neither binaryState nor the file buffers; the
\* text 'Password: ' is answered by one message, the password and a carriage
\* return, any other text by none.
C17_TextIsIndependent ==
    [][(ev'.op = "text") =>
          /\ UNCHANGED <<binaryState, sendFileData, getFileData>>
          /\ out' = IF ev'.prompt THEN <<PasswordLine>> ELSE <<>>]_vars

C17_Witness ==
    /\ ev.op = "text" /\ ev.prompt
    /\ pre = 22 /\ binaryState = 22 /\ getFileData # <<>>
    /\ out = <<PasswordLine>>

C19_LengthIsWritten ==
    probe.fn \in {"put", "get"} =>
        /\ HalfAt(probe.frame, 16) = Min(Len(probe.name), 64)
        /\ HalfAt(probe.frame, 16) <= 64

\* C20: when the send of the request frame raises inside sendFile or
\* loadFile, the session is still idle: binaryState is 0.
C20_FailedStartStaysIdle ==
    (IsCall /\ ev.threw /\ pre = 0) => binaryState = 0

====
